---- MODULE Spec2Model ----
(***************************************************************************)
(* A model of the foodgram API backend (backend/api): the recipe write     *)
(* path of RecipeSerializer (validate / create / update), the              *)
(* favorite / shopping_cart / subscribe toggles of the view sets and the   *)
(* shopping-list download.                                                 *)
(*                                                                         *)
(* Every request is a process: it takes one step per database statement    *)
(* of its handler (serializers.py opens no transaction, so every           *)
(* statement commits on its own), ends in "done" holding its response,     *)
(* and Respond hands the response back and frees the process.              *)
(***************************************************************************)
EXTENDS Integers, Sequences, FiniteSets

\* ---------------------------------------------------------------- bounds
NumProcs == 2
MaxRecipes == 2
MaxAmount == 2
MaxLen == 2
\* The recipes created in the specifications that are not about the cart.
RecipeLimit == 1

\* -------------------------------------------------------------- catalogs
Procs == 1..NumProcs
RecipeIds == 1..MaxRecipes
Users == {"u1", "u2"}
\* Ingredient rows (id -> name, measurement_unit); read-only reference data.
Ingredients == {1, 2}
IngredientName(i) == IF i = 1 THEN "Salt" ELSE "Sugar"
IngredientUnit(i) == "g"
\* Tag rows present in the database, and the tag ids a client may send.
TagCatalog == {1, 2}
TagIds == {1, 2, 3}
\* The scalar fields of a recipe (name, image, text, cooking_time) as one value.
Scalars == {"a", "b"}
Amounts == 0..MaxAmount

\* ------------------------------------------------------------- payloads
Entry(i, a) == [id |-> i, amount |-> a]
Entries == {Entry(i, a) : i \in Ingredients, a \in Amounts}
EntryKey(e) == e.id * (MaxAmount + 1) + e.amount
\* The ingredient lists of a request, up to MaxLen entries.  Nothing in the
\* handlers depends on the order of the list, so one order of each is drawn.
IngredientLists ==
    {l : l \in {s \in UNION {[1..n -> Entries] : n \in 0..MaxLen} :
        \A k \in 1..(Len(s) - 1) : EntryKey(s[k]) <= EntryKey(s[k + 1])}}
Payloads ==
    {d : d \in [ingredients : IngredientLists, tags : SUBSET TagIds, scal : Scalars]}
NoPayload == [ingredients |-> <<>>, tags |-> {}, scal |-> "a"]

\* ------------------------------------------------- bags of ingredient rows
LineKeys == Ingredients \X Amounts
EmptyLines == [k \in LineKeys |-> 0]
LinesOf(s) ==
    [k \in LineKeys |->
        Cardinality({n \in 1..Len(s) : s[n].id = k[1] /\ s[n].amount = k[2]})]
LinesPlus(a, b) == [k \in LineKeys |-> a[k] + b[k]]
RECURSIVE SumOver(_, _)
SumOver(f, S) ==
    IF S = {} THEN 0
    ELSE LET x == CHOOSE x \in S : TRUE IN f[x] + SumOver(f, S \ {x})
RowsOfIngredient(b, i) == SumOver(b, {k \in LineKeys : k[1] = i})

VARIABLES
    Recipe,               \* recipe id -> "none" or the row's scalar fields
    RecipeTags,           \* recipe id -> the tags linked to it
    IngredientsInRecipe,  \* recipe id -> bag of (ingredient, amount) rows
    Favorite,             \* (user, recipe) -> number of rows
    ShoppingCart,         \* (user, recipe) -> number of rows
    Subscribe,            \* (user, author) -> number of rows
    pc,                   \* process -> its position in its handler
    req,                  \* process -> the request it serves
    resp                  \* process -> the response it produced

db == <<Recipe, RecipeTags, IngredientsInRecipe, Favorite, ShoppingCart, Subscribe>>
recipeTables == <<Recipe, RecipeTags, IngredientsInRecipe>>
linkTables == <<Favorite, ShoppingCart, Subscribe>>
vars == <<Recipe, RecipeTags, IngredientsInRecipe, Favorite, ShoppingCart,
          Subscribe, pc, req, resp>>

NoReq == [op |-> "none", method |-> "none", user |-> "none", recipe |-> 0,
          author |-> "none", payload |-> NoPayload]
NoResp == [status |-> "none", detail |-> "", body |-> <<>>]
Response(s, d) == [status |-> s, detail |-> d, body |-> <<>>]

Init ==
    /\ Recipe = [r \in RecipeIds |-> "none"]
    /\ RecipeTags = [r \in RecipeIds |-> {}]
    /\ IngredientsInRecipe = [r \in RecipeIds |-> EmptyLines]
    /\ Favorite = [k \in Users \X RecipeIds |-> 0]
    /\ ShoppingCart = [k \in Users \X RecipeIds |-> 0]
    /\ Subscribe = [k \in Users \X Users |-> 0]
    /\ pc = [p \in Procs |-> "idle"]
    /\ req = [p \in Procs |-> NoReq]
    /\ resp = [p \in Procs |-> NoResp]

\* A request ends: its response is set and it waits to be handed back.
Finish(p, r) ==
    /\ pc' = [pc EXCEPT ![p] = "done"]
    /\ resp' = [resp EXCEPT ![p] = r]

Goto(p, label) ==
    /\ pc' = [pc EXCEPT ![p] = label]
    /\ UNCHANGED resp

Respond(p) ==
    /\ pc[p] = "done"
    /\ pc' = [pc EXCEPT ![p] = "idle"]
    /\ req' = [req EXCEPT ![p] = NoReq]
    /\ resp' = [resp EXCEPT ![p] = NoResp]
    /\ UNCHANGED db

\* ----------------------------------------------------- database constraints
\* The schema (recipes/models.py, users/models.py) keeps the data model's
\* invariants: one row per (recipe, ingredient), per (user, recipe) and per
\* (user, author).  An insert that would break one raises IntegrityError.
\* A link table without its unique constraint.
LinkUniqueOff(n) == TRUE
LinesUnique(b) == \A i \in Ingredients : RowsOfIngredient(b, i) <= 1
LinkUnique(n) == n <= 1

\* ------------------------------------------------------------ validation
\* TagSerializer.to_internal_value: Tag.objects.get(id=data).
TagToInternalValue(t) == IF t \in TagCatalog THEN "ok" ELSE "Tag.DoesNotExist"

RECURSIVE ValidatedIngredients(_)
\* The loop of validate: raised when an amount is <= 0, else the list of ids
\* it appended.
ValidatedIngredients(ingredients) ==
    IF ingredients = <<>> THEN [raised |-> FALSE, ids |-> <<>>]
    ELSE IF Head(ingredients).amount <= 0 THEN [raised |-> TRUE, ids |-> <<>>]
    ELSE LET rest == ValidatedIngredients(Tail(ingredients))
         IN  [rest EXCEPT !.ids = <<Head(ingredients).id>> \o @]

\* Tag.objects.filter(name=tag).exists(), tag a Tag instance of the catalog.
TagNameExists(t) == t \in TagCatalog

\* RecipeSerializer.validate.
Validate(data) ==
    IF data.ingredients = <<>> THEN "ingredients_empty"
    ELSE LET validated_ingredients == ValidatedIngredients(data.ingredients)
         IN  IF validated_ingredients.raised THEN "amount"
             ELSE IF Len(validated_ingredients.ids) # Len(data.ingredients)
                  THEN "unique"
             ELSE IF data.tags = {} THEN "tags_empty"
             ELSE IF \E t \in data.tags : ~TagNameExists(t) THEN "tag_missing"
             ELSE "ok"

\* serializer.is_valid(raise_exception=True): the fields' to_internal_value
\* (tags first: an unknown id raises out of the serializer), then validate.
IsValid(data) ==
    IF \E t \in data.tags : TagToInternalValue(t) # "ok"
    THEN Response("EXCEPTION", "Tag.DoesNotExist")
    ELSE LET v == Validate(data)
         IN  IF v = "ok" THEN Response("ok", "")
             ELSE Response("HTTP_400_BAD_REQUEST", v)

\* ------------------------------------------------------ recipe write path
NextRecipeId == CHOOSE r \in RecipeIds : Recipe[r] = "none" /\
                    \A q \in RecipeIds : q < r => Recipe[q] # "none"

\* IngredientsInRecipe.objects.bulk_create(ingredients_list): one INSERT.
IngredintsCreate(ingredients, recipe) ==
    LinesPlus(IngredientsInRecipe[recipe], LinesOf(ingredients))

\* POST /recipes/: is_valid, then create up to Recipe.objects.create.
BeginCreate(p, data, limit) ==
    /\ pc[p] = "idle"
    /\ \E r \in 1..limit : Recipe[r] = "none"
    /\ req' = [req EXCEPT ![p] =
                 [NoReq EXCEPT !.op = "recipe", !.method = "POST",
                               !.payload = data,
                               !.recipe = IF IsValid(data).status = "ok"
                                          THEN NextRecipeId ELSE 0]]
    /\ IF IsValid(data).status = "ok"
       THEN /\ Recipe' = [Recipe EXCEPT ![NextRecipeId] = data.scal]
            /\ Goto(p, "create_tags")
            /\ UNCHANGED <<RecipeTags, IngredientsInRecipe, linkTables>>
       ELSE /\ Finish(p, IsValid(data))
            /\ UNCHANGED db

\* recipe.tags.set(tags)
CreateTagsSet(p) ==
    /\ pc[p] = "create_tags"
    /\ RecipeTags' = [RecipeTags EXCEPT ![req[p].recipe] = req[p].payload.tags]
    /\ Goto(p, "create_ingredients")
    /\ UNCHANGED <<Recipe, IngredientsInRecipe, linkTables, req>>

\* self.ingredints_create(ingredients, recipe); return recipe
CreateIngredients(p) ==
    /\ pc[p] = "create_ingredients"
    /\ LET new == IngredintsCreate(req[p].payload.ingredients, req[p].recipe)
       IN  IF LinesUnique(new)
           THEN /\ IngredientsInRecipe' =
                       [IngredientsInRecipe EXCEPT ![req[p].recipe] = new]
                /\ Finish(p, Response("HTTP_201_CREATED", ""))
           ELSE /\ UNCHANGED IngredientsInRecipe
                /\ Finish(p, Response("EXCEPTION", "IntegrityError"))
    /\ UNCHANGED <<Recipe, RecipeTags, linkTables, req>>

\* An update that removes no row first.
DeleteLinesKeepsRows(recipe) == IngredientsInRecipe[recipe]

\* The rows update() removes first:
\* IngredientsInRecipe.objects.filter(recipe=instance).delete()
DeleteLines(recipe) == EmptyLines

\* PUT/PATCH /recipes/{id}/: get_object, is_valid, then update up to the delete.
BeginUpdate(p, r, data) ==
    /\ pc[p] = "idle"
    /\ req' = [req EXCEPT ![p] =
                 [NoReq EXCEPT !.op = "recipe", !.method = "PATCH",
                               !.payload = data, !.recipe = r]]
    /\ IF Recipe[r] = "none"
       THEN /\ Finish(p, Response("HTTP_404_NOT_FOUND", ""))
            /\ UNCHANGED db
       ELSE IF IsValid(data).status # "ok"
       THEN /\ Finish(p, IsValid(data))
            /\ UNCHANGED db
       ELSE /\ IngredientsInRecipe' =
                   [IngredientsInRecipe EXCEPT ![r] = DeleteLines(r)]
            /\ Goto(p, "update_tags")
            /\ UNCHANGED <<Recipe, RecipeTags, linkTables>>

\* instance.tags.set(tags)
UpdateTagsSet(p) ==
    /\ pc[p] = "update_tags"
    /\ RecipeTags' = [RecipeTags EXCEPT ![req[p].recipe] = req[p].payload.tags]
    /\ Goto(p, "update_row")
    /\ UNCHANGED <<Recipe, IngredientsInRecipe, linkTables, req>>

\* Recipe.objects.filter(pk=instance.pk).update(**validated_data)
UpdateRow(p) ==
    /\ pc[p] = "update_row"
    /\ Recipe' = [Recipe EXCEPT ![req[p].recipe] = req[p].payload.scal]
    /\ Goto(p, "update_ingredients")
    /\ UNCHANGED <<RecipeTags, IngredientsInRecipe, linkTables, req>>

\* self.ingredints_create(ingredients, instance)
UpdateIngredients(p) ==
    /\ pc[p] = "update_ingredients"
    /\ LET new == IngredintsCreate(req[p].payload.ingredients, req[p].recipe)
       IN  IF LinesUnique(new)
           THEN /\ IngredientsInRecipe' =
                       [IngredientsInRecipe EXCEPT ![req[p].recipe] = new]
                /\ Goto(p, "update_save")
           ELSE /\ UNCHANGED IngredientsInRecipe
                /\ Finish(p, Response("EXCEPTION", "IntegrityError"))
    /\ UNCHANGED <<Recipe, RecipeTags, linkTables, req>>

\* instance.refresh_from_db(); super().update(instance, validated_data):
\* the scalar fields are set from validated_data and the row is saved.
UpdateSave(p) ==
    /\ pc[p] = "update_save"
    /\ Recipe' = [Recipe EXCEPT ![req[p].recipe] = req[p].payload.scal]
    /\ Finish(p, Response("HTTP_200_OK", ""))
    /\ UNCHANGED <<RecipeTags, IngredientsInRecipe, linkTables, req>>

\* ---------------------------------------------------------------- toggles
\* An existence check that never finds the favorite.
FavoriteExistsNever(u, r) == FALSE
FavoriteExists(u, r) == Favorite[<<u, r>>] > 0
CartExists(u, r) == ShoppingCart[<<u, r>>] > 0
SubscribeExists(u, a) == Subscribe[<<u, a>>] > 0

LinkReq(op, m, u, r, a) ==
    [NoReq EXCEPT !.op = op, !.method = m, !.user = u, !.recipe = r, !.author = a]

\* RecipeViewSet.favorite up to the insert or the delete.
BeginFavorite(p, m, u, r) ==
    /\ pc[p] = "idle"
    /\ req' = [req EXCEPT ![p] = LinkReq("favorite", m, u, r, "none")]
    /\ UNCHANGED db
    /\ IF Recipe[r] = "none"
       THEN Finish(p, Response("HTTP_404_NOT_FOUND", ""))
       ELSE IF m = "POST"
       THEN IF FavoriteExists(u, r)
            THEN Finish(p, Response("HTTP_400_BAD_REQUEST", "exists"))
            ELSE Goto(p, "favorite_create")
       ELSE IF ~FavoriteExists(u, r)
            THEN Finish(p, Response("HTTP_400_BAD_REQUEST", "absent"))
            ELSE Goto(p, "favorite_delete")

\* Favorite.objects.create(user=request.user, recipe=recipe)
FavoriteCreate(p) ==
    /\ pc[p] = "favorite_create"
    /\ LET k == <<req[p].user, req[p].recipe>>
       IN  IF LinkUnique(Favorite[k] + 1)
           THEN /\ Favorite' = [Favorite EXCEPT ![k] = @ + 1]
                /\ Finish(p, Response("HTTP_201_CREATED", ""))
           ELSE /\ UNCHANGED Favorite
                /\ Finish(p, Response("EXCEPTION", "IntegrityError"))
    /\ UNCHANGED <<recipeTables, ShoppingCart, Subscribe, req>>

\* favorite.delete()
FavoriteDelete(p) ==
    /\ pc[p] = "favorite_delete"
    /\ Favorite' = [Favorite EXCEPT ![<<req[p].user, req[p].recipe>>] = 0]
    /\ Finish(p, Response("HTTP_204_NO_CONTENT", ""))
    /\ UNCHANGED <<recipeTables, ShoppingCart, Subscribe, req>>

\* RecipeViewSet.shopping_cart: add_recipe / delete_recipe up to the insert
\* or the delete.
BeginShoppingCart(p, m, u, r) ==
    /\ pc[p] = "idle"
    /\ req' = [req EXCEPT ![p] = LinkReq("shopping_cart", m, u, r, "none")]
    /\ UNCHANGED db
    /\ IF Recipe[r] = "none"
       THEN Finish(p, Response("HTTP_404_NOT_FOUND", ""))
       ELSE IF m = "POST"
       THEN IF CartExists(u, r)
            THEN Finish(p, Response("HTTP_400_BAD_REQUEST", ""))
            ELSE Goto(p, "cart_create")
       ELSE IF CartExists(u, r)
            THEN Goto(p, "cart_delete")
            ELSE Finish(p, Response("HTTP_400_BAD_REQUEST", ""))

\* add_recipe: model.objects.create(user=request.user, recipe=recipe)
AddRecipe(p) ==
    /\ pc[p] = "cart_create"
    /\ LET k == <<req[p].user, req[p].recipe>>
       IN  IF LinkUnique(ShoppingCart[k] + 1)
           THEN /\ ShoppingCart' = [ShoppingCart EXCEPT ![k] = @ + 1]
                /\ Finish(p, Response("HTTP_201_CREATED", ""))
           ELSE /\ UNCHANGED ShoppingCart
                /\ Finish(p, Response("EXCEPTION", "IntegrityError"))
    /\ UNCHANGED <<recipeTables, Favorite, Subscribe, req>>

\* delete_recipe: model.objects.filter(user=..., recipe=recipe).delete()
DeleteRecipe(p) ==
    /\ pc[p] = "cart_delete"
    /\ ShoppingCart' = [ShoppingCart EXCEPT ![<<req[p].user, req[p].recipe>>] = 0]
    /\ Finish(p, Response("HTTP_204_NO_CONTENT", ""))
    /\ UNCHANGED <<recipeTables, Favorite, Subscribe, req>>

\* A subscribe without the comparison of user and author.
IsSelfNever(u, a) == FALSE

\* user == author
IsSelf(u, a) == u = a

\* UserViewSet.subscribe up to the insert or the delete.
BeginSubscribe(p, m, u, a) ==
    /\ pc[p] = "idle"
    /\ req' = [req EXCEPT ![p] = LinkReq("subscribe", m, u, 0, a)]
    /\ UNCHANGED db
    /\ IF m = "POST"
       THEN IF IsSelf(u, a)
            THEN Finish(p, Response("HTTP_400_BAD_REQUEST", "self"))
            ELSE IF SubscribeExists(u, a)
            THEN Finish(p, Response("HTTP_400_BAD_REQUEST", "exists"))
            ELSE Goto(p, "subscribe_create")
       ELSE IF IsSelf(u, a)
            THEN Finish(p, Response("HTTP_400_BAD_REQUEST", "self"))
            ELSE IF SubscribeExists(u, a)
            THEN Goto(p, "subscribe_delete")
            ELSE Finish(p, Response("HTTP_400_BAD_REQUEST", "absent"))

\* Subscribe.objects.create(user=user, author=author)
SubscribeCreate(p) ==
    /\ pc[p] = "subscribe_create"
    /\ LET k == <<req[p].user, req[p].author>>
       IN  IF LinkUnique(Subscribe[k] + 1)
           THEN /\ Subscribe' = [Subscribe EXCEPT ![k] = @ + 1]
                /\ Finish(p, Response("HTTP_201_CREATED", ""))
           ELSE /\ UNCHANGED Subscribe
                /\ Finish(p, Response("EXCEPTION", "IntegrityError"))
    /\ UNCHANGED <<recipeTables, Favorite, ShoppingCart, req>>

\* follow.delete()
SubscribeDelete(p) ==
    /\ pc[p] = "subscribe_delete"
    /\ Subscribe' = [Subscribe EXCEPT ![<<req[p].user, req[p].author>>] = 0]
    /\ Finish(p, Response("HTTP_204_NO_CONTENT", ""))
    /\ UNCHANGED <<recipeTables, Favorite, ShoppingCart, req>>

\* ------------------------------------------------------- shopping list
RECURSIVE Repeat(_, _)
Repeat(x, n) == IF n = 0 THEN <<>> ELSE <<x>> \o Repeat(x, n - 1)

LineKeyAt(n) == <<((n - 1) \div (MaxAmount + 1)) + 1, (n - 1) % (MaxAmount + 1)>>

\* IngredientsInRecipe.objects.filter(recipe__shopping_cart__user=user)
\*     .values_list('ingredient__name', 'amount', 'ingredient__measurement_unit'):
\* the join of the ingredient rows with the user's cart rows, one tuple per pair.
NumLineKeys == Cardinality(LineKeys)
RECURSIVE CartIngredients(_, _, _)
CartIngredients(user, r, n) ==
    IF r > MaxRecipes THEN <<>>
    ELSE IF n > NumLineKeys THEN CartIngredients(user, r + 1, 1)
    ELSE Repeat(<<IngredientName(LineKeyAt(n)[1]), LineKeyAt(n)[2],
                  IngredientUnit(LineKeyAt(n)[1])>>,
                ShoppingCart[<<user, r>>] * IngredientsInRecipe[r][LineKeyAt(n)])
         \o CartIngredients(user, r, n + 1)

\* One pass of the loop body on shopping_dict (kept in insertion order).
ShoppingDictAdd(d, ingredient) ==
    IF \A k \in 1..Len(d) : d[k].name # ingredient[1]
    THEN Append(d, [name |-> ingredient[1], amount |-> ingredient[2],
                    measurement_unit |-> ingredient[3]])
    ELSE [k \in 1..Len(d) |->
            IF d[k].name = ingredient[1]
            THEN [d[k] EXCEPT !.amount = @ + ingredient[2]]
            ELSE d[k]]

RECURSIVE ShoppingDict(_, _)
ShoppingDict(d, ingredients) ==
    IF ingredients = <<>> THEN d
    ELSE ShoppingDict(ShoppingDictAdd(d, Head(ingredients)), Tail(ingredients))

\* The lines f'{key} - {amount} {measurement_unit}\n' of shopping_dict.
ShoppingList(d) ==
    [k \in 1..Len(d) |-> <<d[k].name, d[k].amount, d[k].measurement_unit>>]

\* RecipeViewSet.download_shopping_cart: shopping_list is bound in the loop
\* body only, so with no ingredient row the response cannot be built.
DownloadShoppingCart(p, u) ==
    /\ pc[p] = "idle"
    /\ req' = [req EXCEPT ![p] = LinkReq("download_shopping_cart", "GET", u, 0, "none")]
    /\ LET ingredients == CartIngredients(u, 1, 1)
       IN  IF ingredients = <<>>
           THEN Finish(p, Response("EXCEPTION", "UnboundLocalError"))
           ELSE Finish(p, [status |-> "HTTP_200_OK", detail |-> "",
                           body |-> ShoppingList(ShoppingDict(<<>>, ingredients))])
    /\ UNCHANGED db

\* ------------------------------------------------------- specifications
Quiet == \A q \in Procs : pc[q] = "idle"
Methods == {"POST", "DELETE"}

ValidPayload(data) ==
    /\ data.ingredients # <<>>
    /\ \A k \in 1..Len(data.ingredients) : data.ingredients[k].amount > 0
    /\ \A j, k \in 1..Len(data.ingredients) :
          j # k => data.ingredients[j].id # data.ingredients[k].id
    /\ data.tags # {}
    /\ data.tags \subseteq TagCatalog

\* Recipe writes, one request at a time, over every payload.
NextRecipesSeq ==
    \E p \in Procs :
        \/ Quiet /\ p = 1 /\ \E data \in Payloads : BeginCreate(p, data, RecipeLimit)
        \/ Quiet /\ p = 1 /\ \E r \in RecipeIds, data \in Payloads : BeginUpdate(p, r, data)
        \/ CreateTagsSet(p)
        \/ CreateIngredients(p)
        \/ UpdateTagsSet(p)
        \/ UpdateRow(p)
        \/ UpdateIngredients(p)
        \/ UpdateSave(p)
        \/ Respond(p)

SpecRecipesSeq == Init /\ [][NextRecipesSeq]_vars

\* Concurrent recipe writes, over the valid payloads of one ingredient line.
RacePayloads ==
    {d : d \in {data \in Payloads : ValidPayload(data) /\ Len(data.ingredients) = 1}}

NextRecipes ==
    \E p \in Procs :
        \/ \E data \in RacePayloads : BeginCreate(p, data, RecipeLimit)
        \/ \E r \in RecipeIds, data \in RacePayloads : BeginUpdate(p, r, data)
        \/ CreateTagsSet(p)
        \/ CreateIngredients(p)
        \/ UpdateTagsSet(p)
        \/ UpdateRow(p)
        \/ UpdateIngredients(p)
        \/ UpdateSave(p)
        \/ Respond(p)

SpecRecipes == Init /\ [][NextRecipes]_vars

\* The toggles, concurrently, on recipes created from one payload.
FixedPayload == [ingredients |-> <<Entry(1, 1)>>, tags |-> {1}, scal |-> "a"]

LinkBegin(p) ==
    \/ \E m \in Methods, u \in Users, r \in RecipeIds : BeginFavorite(p, m, u, r)
    \/ \E m \in Methods, u \in Users, r \in RecipeIds : BeginShoppingCart(p, m, u, r)
    \/ \E m \in Methods, u \in Users, a \in Users : BeginSubscribe(p, m, u, a)

LinkStep(p) ==
    \/ FavoriteCreate(p)
    \/ FavoriteDelete(p)
    \/ AddRecipe(p)
    \/ DeleteRecipe(p)
    \/ SubscribeCreate(p)
    \/ SubscribeDelete(p)

NextLinks ==
    \E p \in Procs :
        \/ Quiet /\ BeginCreate(p, FixedPayload, RecipeLimit)
        \/ CreateTagsSet(p)
        \/ CreateIngredients(p)
        \/ LinkBegin(p)
        \/ LinkStep(p)
        \/ Respond(p)

SpecLinks == Init /\ [][NextLinks]_vars

NextLinksSeq ==
    \E p \in Procs :
        \/ Quiet /\ p = 1 /\ BeginCreate(p, FixedPayload, RecipeLimit)
        \/ CreateTagsSet(p)
        \/ CreateIngredients(p)
        \/ Quiet /\ p = 1 /\ LinkBegin(p)
        \/ LinkStep(p)
        \/ Respond(p)

SpecLinksSeq == Init /\ [][NextLinksSeq]_vars

\* The subscriptions alone, concurrently.
NextSubscribe ==
    \E p \in Procs :
        \/ \E m \in Methods, u \in Users, a \in Users : BeginSubscribe(p, m, u, a)
        \/ SubscribeCreate(p)
        \/ SubscribeDelete(p)
        \/ Respond(p)

SpecSubscribe == Init /\ [][NextSubscribe]_vars

\* The cart and the download: recipe writes (valid payloads, one tag set) run
\* on process 1, the cart requests and the downloads on the other processes,
\* concurrently with them.
CartPayloads ==
    {d : d \in {data \in Payloads :
                    ValidPayload(data) /\ data.tags = {1} /\ data.scal = "a"}}

NextCart ==
    \E p \in Procs :
        \/ p = 1 /\ \E data \in CartPayloads : BeginCreate(p, data, MaxRecipes)
        \/ p = 1 /\ \E r \in RecipeIds, data \in CartPayloads : BeginUpdate(p, r, data)
        \/ CreateTagsSet(p)
        \/ CreateIngredients(p)
        \/ UpdateTagsSet(p)
        \/ UpdateRow(p)
        \/ UpdateIngredients(p)
        \/ UpdateSave(p)
        \/ p # 1 /\ \E m \in Methods, u \in Users, r \in RecipeIds :
                        BeginShoppingCart(p, m, u, r)
        \/ AddRecipe(p)
        \/ DeleteRecipe(p)
        \/ p # 1 /\ \E u \in Users : DownloadShoppingCart(p, u)
        \/ Respond(p)

SpecCart == Init /\ [][NextCart]_vars

\* ------------------------------------------------------------ properties
\* What a reader of recipe r sees.
Visible(r) == <<Recipe[r], RecipeTags[r], IngredientsInRecipe[r]>>
\* Recipe r exactly as payload data describes it.
Complete(data) == <<data.scal, data.tags, LinesOf(data.ingredients)>>

HasDuplicate(ingredients) ==
    \E j, k \in 1..Len(ingredients) : j # k /\ ingredients[j].id = ingredients[k].id
AllPositive(ingredients) ==
    \A k \in 1..Len(ingredients) : ingredients[k].amount > 0

\* Process p starts serving a recipe write on this step: a create, or an
\* update of a recipe that exists.
StartsWrite(p) ==
    /\ pc[p] = "idle"
    /\ pc'[p] # "idle"
    /\ req'[p].op = "recipe"
    /\ req'[p].method = "PATCH" => Recipe[req'[p].recipe] # "none"

\* C1: recipe create and update are atomic for readers: every step that
\* changes what a reader sees of recipe r takes r straight to the complete
\* state of the payload of the request that took the step (never to r without
\* ingredient lines, or to new tags with old lines).
C1_WritesAreAtomic ==
    [][\A r \in RecipeIds :
          Visible(r)' # Visible(r) =>
              \E p \in Procs : /\ pc'[p] # pc[p]
                               /\ req'[p].recipe = r
                               /\ Visible(r)' = Complete(req'[p].payload)]_vars

\* C2: a create or update whose payload names an ingredient twice (all
\* amounts positive; its tags valid, so that no other error can come first)
\* fails validation with the duplicate-ingredient error and no recipe is
\* created or changed.
C2_DuplicateIngredientRejected ==
    [][\A p \in Procs :
          (/\ StartsWrite(p)
           /\ HasDuplicate(req'[p].payload.ingredients)
           /\ AllPositive(req'[p].payload.ingredients)
           /\ req'[p].payload.tags # {}
           /\ req'[p].payload.tags \subseteq TagCatalog)
          => /\ pc'[p] = "done"
             /\ resp'[p] = Response("HTTP_400_BAD_REQUEST", "unique")
             /\ UNCHANGED recipeTables]_vars

\* C3: a completed create, or update of an existing recipe, with a valid
\* payload leaves the recipe with exactly the payload's (ingredient, amount)
\* lines and exactly the payload's tags.
C3_WriteRoundTrip ==
    \A p \in Procs :
        (/\ pc[p] = "done"
         /\ req[p].op = "recipe"
         /\ ValidPayload(req[p].payload)
         /\ resp[p].status # "HTTP_404_NOT_FOUND")
        => /\ resp[p].status =
                  IF req[p].method = "POST" THEN "HTTP_201_CREATED" ELSE "HTTP_200_OK"
           /\ Recipe[req[p].recipe] # "none"
           /\ IngredientsInRecipe[req[p].recipe] = LinesOf(req[p].payload.ingredients)
           /\ RecipeTags[req[p].recipe] = req[p].payload.tags

\* An update that replaced two lines by one completed.
C3_Witness ==
    \E p \in Procs :
        /\ pc[p] = "done"
        /\ req[p].method = "PATCH"
        /\ resp[p].status = "HTTP_200_OK"
        /\ req[p].payload.ingredients = <<Entry(2, 2)>>
        /\ req[p].payload.tags = {2}

\* The shopping list the cart of user u stands for.
CartRecipes(u) == {r \in RecipeIds : ShoppingCart[<<u, r>>] > 0}
CartNames(u) ==
    {IngredientName(k[1]) :
        k \in {k \in LineKeys : \E r \in CartRecipes(u) : IngredientsInRecipe[r][k] > 0}}
TotalAmount(u, n) ==
    LET S == {x \in CartRecipes(u) \X LineKeys : IngredientName(x[2][1]) = n}
    IN  SumOver([x \in S |-> x[2][2] * IngredientsInRecipe[x[1]][x[2]]], S)
IsShoppingListOf(body, u) ==
    /\ Len(body) = Cardinality(CartNames(u))
    /\ \A n \in CartNames(u) :
          \E k \in 1..Len(body) : body[k] = <<n, TotalAmount(u, n), "g">>

\* Process p serves a download on this step.
Downloads(p) ==
    /\ pc[p] = "idle"
    /\ pc'[p] = "done"
    /\ req'[p].op = "download_shopping_cart"

\* C4: a download for a user whose cart is not empty returns one line per
\* ingredient name of the cart's recipes, with the amounts of that name summed
\* over the recipes of the cart.
C4_ShoppingListSums ==
    [][\A p \in Procs :
          (Downloads(p) /\ CartRecipes(req'[p].user) # {})
          => /\ resp'[p].status = "HTTP_200_OK"
             /\ IsShoppingListOf(resp'[p].body, req'[p].user)]_vars

\* The part of C4 the code keeps: whenever the cart's recipes hold at least
\* one ingredient line, the download is that list.
ShoppingListSumsGivenLines ==
    [][\A p \in Procs :
          (Downloads(p) /\ CartNames(req'[p].user) # {})
          => /\ resp'[p].status = "HTTP_200_OK"
             /\ IsShoppingListOf(resp'[p].body, req'[p].user)]_vars

\* C5: a download for a user whose cart is empty, or whose cart's recipes have
\* no ingredient line, succeeds with an output of zero lines.
C5_EmptyCartEmptyList ==
    [][\A p \in Procs :
          (Downloads(p) /\ CartNames(req'[p].user) = {})
          => /\ resp'[p].status = "HTTP_200_OK"
             /\ resp'[p].body = <<>>]_vars

\* The toggles' relations, targets and rows.
LinkOps == {"favorite", "shopping_cart", "subscribe"}
Targets(op) == IF op = "subscribe" THEN Users ELSE RecipeIds
LinkReqFor(op, m, u, t) ==
    IF op = "subscribe" THEN LinkReq(op, m, u, 0, t) ELSE LinkReq(op, m, u, t, "none")
LinkCount(op, u, t) ==
    IF op = "favorite" THEN Favorite[<<u, t>>]
    ELSE IF op = "shopping_cart" THEN ShoppingCart[<<u, t>>]
    ELSE Subscribe[<<u, t>>]
TargetExists(op, u, t) == IF op = "subscribe" THEN u # t ELSE Recipe[t] # "none"
CreateLabel(op) ==
    IF op = "favorite" THEN "favorite_create"
    ELSE IF op = "shopping_cart" THEN "cart_create" ELSE "subscribe_create"
DeleteLabel(op) ==
    IF op = "favorite" THEN "favorite_delete"
    ELSE IF op = "shopping_cart" THEN "cart_delete" ELSE "subscribe_delete"

\* C6: for each relation and each pair (user # author for subscribe), with
\* requests served one at a time: POST on an absent link creates it and
\* succeeds, POST on a present link fails (400) and changes nothing, DELETE on
\* a present link removes it and succeeds, DELETE on an absent link fails
\* (400) and changes nothing.
C6_TogglePattern ==
    [][\A p \in Procs, op \in LinkOps, m \in Methods, u \in Users :
        \A t \in Targets(op) :
          /\ (/\ pc[p] = "idle"
              /\ pc'[p] # "idle"
              /\ req'[p] = LinkReqFor(op, m, u, t)
              /\ TargetExists(op, u, t))
             => IF (m = "POST") = (LinkCount(op, u, t) > 0)
                THEN /\ pc'[p] = "done"
                     /\ resp'[p].status = "HTTP_400_BAD_REQUEST"
                     /\ UNCHANGED linkTables
                ELSE /\ pc'[p] = IF m = "POST" THEN CreateLabel(op) ELSE DeleteLabel(op)
                     /\ UNCHANGED linkTables
          /\ (/\ pc[p] \in {CreateLabel(op), DeleteLabel(op)}
              /\ req[p] = LinkReqFor(op, m, u, t))
             => /\ pc'[p] = "done"
                /\ (LinkCount(op, u, t) > 0) = (m = "DELETE")
                /\ LinkCount(op, u, t)' = IF m = "POST" THEN 1 ELSE 0
                /\ resp'[p].status =
                       IF m = "POST" THEN "HTTP_201_CREATED" ELSE "HTTP_204_NO_CONTENT"]_vars

\* A second POST of a favorite was refused while the link stayed.
C6_Witness ==
    \E p \in Procs :
        /\ pc[p] = "done"
        /\ req[p].op = "favorite"
        /\ req[p].method = "POST"
        /\ resp[p].status = "HTTP_400_BAD_REQUEST"
        /\ Favorite[<<req[p].user, req[p].recipe>>] = 1

C8_NoSelfSubscription ==
    /\ [](\A u \in Users : Subscribe[<<u, u>>] = 0)
    /\ [][\A p \in Procs :
            (/\ pc[p] = "idle"
             /\ pc'[p] # "idle"
             /\ req'[p].op = "subscribe"
             /\ req'[p].user = req'[p].author)
            => /\ pc'[p] = "done"
               /\ resp'[p] = Response("HTTP_400_BAD_REQUEST", "self")
               /\ UNCHANGED db]_vars

\* A self-subscription was refused while another subscription exists.
C8_Witness ==
    \E p \in Procs :
        /\ pc[p] = "done"
        /\ req[p].op = "subscribe"
        /\ req[p].method = "DELETE"
        /\ req[p].user = req[p].author
        /\ resp[p].detail = "self"
        /\ \E k \in Users \X Users : Subscribe[k] > 0

InvalidPayload(data) ==
    \/ data.ingredients = <<>>
    \/ ~AllPositive(data.ingredients)
    \/ data.tags = {}
    \/ ~(data.tags \subseteq TagCatalog)

\* C9: a create or update whose payload has no ingredient, an amount <= 0,
\* no tag or a tag that is not in the catalog fails with a validation error
\* (400) before anything is written: the recipe tables are unchanged.
C9_InvalidWriteRejected ==
    [][\A p \in Procs :
          (StartsWrite(p) /\ InvalidPayload(req'[p].payload))
          => /\ pc'[p] = "done"
             /\ resp'[p].status = "HTTP_400_BAD_REQUEST"
             /\ UNCHANGED db]_vars

\* The part of C9 the code keeps: such a request ends at once, with an error,
\* and writes nothing.
InvalidWriteLeavesDatabase ==
    [][\A p \in Procs :
          (StartsWrite(p) /\ InvalidPayload(req'[p].payload))
          => /\ pc'[p] = "done"
             /\ resp'[p].status \in {"HTTP_400_BAD_REQUEST", "EXCEPTION"}
             /\ UNCHANGED db]_vars

\* C10: when two updates of one recipe with valid payloads both complete,
\* the recipe's lines and tags are exactly those of one of the two payloads.
C10_LastCommittedWins ==
    \A p, q \in Procs :
        (/\ p # q
         /\ pc[p] = "done" /\ pc[q] = "done"
         /\ req[p].method = "PATCH" /\ req[q].method = "PATCH"
         /\ req[p].recipe = req[q].recipe
         /\ resp[p].status = "HTTP_200_OK" /\ resp[q].status = "HTTP_200_OK")
        => \E w \in {p, q} :
              /\ IngredientsInRecipe[req[w].recipe] = LinesOf(req[w].payload.ingredients)
              /\ RecipeTags[req[w].recipe] = req[w].payload.tags

====
